---- MODULE Spec2Model ----
(***************************************************************************)
(* A model of packages/fast-io/fs/src/fast-hfs.js: the path resolver       *)
(* getDetails, the single-entry operations and the recursive tree          *)
(* operations of FastHfsImpl, over a store that is a tree of file and      *)
(* directory entries.                                                      *)
(*                                                                         *)
(* The store is the handle tree the adapter walks.  A handle is the path   *)
(* of the entry it stands for (the adapter keeps no handle across calls).  *)
(* The root handle (#workspaceId) is the empty path.  Every method of the  *)
(* class is one action; the only step that is not a method is the          *)
(* completion of a removeEntry() promise that the code starts and does     *)
(* not await (delete, deleteAll).                                          *)
(***************************************************************************)
EXTENDS Integers, Sequences, FiniteSets, TLC

\* ------------------------------------------------------------------------
\* Bounds
\* ------------------------------------------------------------------------
MaxDepth == 4
MaxEntries == 3
DeepEntries == 4
ArgDepth == 3
MaxOps == 3
SeqDepth == 2
MaxTime == 2
MaxCallers == 2

Names == {"a", "b"}
Data == {<<1>>, <<2, 1>>}

\* The opaqueId literal that getDetails resolves to the workspace root.
RootId == <<"root">>

RECURSIVE PathsOfLen(_)
PathsOfLen(n) ==
    IF n = 0 THEN {<<>>}
    ELSE {Append(p, x) : p \in PathsOfLen(n - 1), x \in Names}

PathsUpTo(d) == UNION {PathsOfLen(n) : n \in 1..d}

\* The path arguments the operations are called with.
Paths == PathsUpTo(ArgDepth) \cup {RootId}
DeepPaths == PathsUpTo(MaxDepth) \cup {RootId}
SeqPaths == PathsUpTo(SeqDepth) \cup {RootId}

\* ------------------------------------------------------------------------
\* Logical paths (Path of @humanfs/core) as sequences of segment names
\* ------------------------------------------------------------------------
Root == <<>>

\* Path.from(string): a path has no empty segment, so the empty string is
\* rejected (TypeError).
PathFromOk(p) == Len(p) >= 1

\* path.pop(): the path without its last segment.
Parent(p) == SubSeq(p, 1, Len(p) - 1)

\* path.name / the value of path.pop(): the last segment.
NameOf(p) == p[Len(p)]

IsPrefix(p, q) == Len(p) <= Len(q) /\ SubSeq(q, 1, Len(p)) = p

IsProperPrefix(p, q) == Len(p) < Len(q) /\ SubSeq(q, 1, Len(p)) = p

\* ------------------------------------------------------------------------
\* The store: a function from the paths of its entries to the entries
\* ------------------------------------------------------------------------
DirEntry == [kind |-> "directory", data |-> <<>>]

FileEntry(d) == [kind |-> "file", data |-> d]

EmptyStore == [q \in {} |-> DirEntry]

Exists(s, p) == p \in DOMAIN s

IsDirAt(s, p) == p = Root \/ (p \in DOMAIN s /\ s[p].kind = "directory")

IsFileAt(s, p) == p \in DOMAIN s /\ s[p].kind = "file"

\* handle.values(): the immediate children of a directory.
Children(s, d) == {q \in DOMAIN s : Len(q) = Len(d) + 1 /\ Parent(q) = d}

\* The entries strictly below p.
Below(s, p) == {q \in DOMAIN s : IsProperPrefix(p, q)}

Put(s, p, e) == [q \in (DOMAIN s) \cup {p} |-> IF q = p THEN e ELSE s[q]]

\* The store without p and without everything below p.
Prune(s, p) == [q \in {r \in DOMAIN s : ~IsPrefix(p, r)} |-> s[q]]

\* Every entry's parent is a directory, and only files hold bytes.
WellFormed(s) ==
    \A q \in DOMAIN s :
        /\ Len(q) >= 1
        /\ IsDirAt(s, Parent(q))
        /\ s[q].kind \in {"file", "directory"}
        /\ (s[q].kind = "directory" => s[q].data = <<>>)

\* The stores that have one more leaf entry than s, no deeper than depth.
Grow(s, depth) ==
    {Put(s, q, e) :
        q \in {r \in PathsUpTo(depth) :
                  r \notin DOMAIN s /\ IsDirAt(s, Parent(r))},
        e \in {DirEntry} \cup {FileEntry(d) : d \in Data}}

\* The stores of at most n entries, grown one leaf at a time.
RECURSIVE StoresUpTo(_, _)
StoresUpTo(n, depth) ==
    IF n = 0 THEN {EmptyStore}
    ELSE LET prev == StoresUpTo(n - 1, depth)
         IN  prev \cup UNION {Grow(s, depth) : s \in prev}

InitStores == StoresUpTo(MaxEntries, ArgDepth)
DeepStores == StoresUpTo(DeepEntries, MaxDepth)

\* ------------------------------------------------------------------------
\* Handles
\* ------------------------------------------------------------------------
NoHandle == [ok |-> FALSE, path |-> Root, kind |-> "none"]

HandleOf(s, p) ==
    [ok |-> TRUE, path |-> p,
     kind |-> IF p = Root THEN "directory" ELSE s[p].kind]

\* handle.name; the root directory's name is the empty string.
HandleName(h) == IF h.path = Root THEN "" ELSE NameOf(h.path)

\* ------------------------------------------------------------------------
\* Host handle primitives
\* ------------------------------------------------------------------------
\* dir.getDirectoryHandle(name, {create}): the child directory; fails when
\* the name is a file, or is missing and create is false.  "over" marks a
\* creation below MaxDepth, which the model does not follow.
getDirectoryHandle(s, dir, name, create) ==
    LET q == Append(dir, name)
    IN  IF q \in DOMAIN s
        THEN [ok |-> s[q].kind = "directory", over |-> FALSE, fs |-> s, path |-> q]
        ELSE IF ~create
        THEN [ok |-> FALSE, over |-> FALSE, fs |-> s, path |-> q]
        ELSE IF Len(q) > MaxDepth
        THEN [ok |-> FALSE, over |-> TRUE, fs |-> s, path |-> q]
        ELSE [ok |-> TRUE, over |-> FALSE, fs |-> Put(s, q, DirEntry), path |-> q]

\* dir.getFileHandle(name, {create}): the child file; fails when the name is
\* a directory, or is missing and create is false.  A created file is empty.
getFileHandle(s, dir, name, create) ==
    LET q == Append(dir, name)
    IN  IF q \in DOMAIN s
        THEN [ok |-> s[q].kind = "file", over |-> FALSE, fs |-> s, path |-> q]
        ELSE IF ~create
        THEN [ok |-> FALSE, over |-> FALSE, fs |-> s, path |-> q]
        ELSE IF Len(q) > MaxDepth
        THEN [ok |-> FALSE, over |-> TRUE, fs |-> s, path |-> q]
        ELSE [ok |-> TRUE, over |-> FALSE, fs |-> Put(s, q, FileEntry(<<>>)), path |-> q]

\* createWritable(); write(contents); close(): the file holds exactly
\* contents (the sink does not keep the existing data).
WriteSink(s, p, contents) == Put(s, p, FileEntry(contents))

\* What the sink's write() does: "none", or the fault it rejects with.
SinkFaults == {"none", "QuotaExceededError"}

\* ------------------------------------------------------------------------
\* getDetails (the path resolver)
\* ------------------------------------------------------------------------
\* The result of a resolution: the handle (NoHandle for undefined), the
\* store after the directories and files it created, and err: "" or the
\* fault it threw.
Resolved(h, s, err, over) == [h |-> h, fs |-> s, err |-> err, over |-> over]

\* The final segment, by kind.
ResolveLast(s, handle, name, create, kind) ==
    LET d == getDirectoryHandle(s, handle, name, create)
        f == getFileHandle(s, handle, name, create)
    IN  IF kind = "directory"
        THEN IF d.ok THEN Resolved(HandleOf(d.fs, d.path), d.fs, "", FALSE)
             ELSE Resolved(NoHandle, s, "", d.over)
        ELSE IF kind = "file"
        THEN IF f.ok THEN Resolved(HandleOf(f.fs, f.path), f.fs, "", FALSE)
             ELSE Resolved(NoHandle, s, "", f.over)
        ELSE IF d.ok THEN Resolved(HandleOf(d.fs, d.path), d.fs, "", FALSE)
        ELSE IF f.ok THEN Resolved(HandleOf(f.fs, f.path), f.fs, "", FALSE)
        ELSE Resolved(NoHandle, s, "", d.over \/ f.over)

RECURSIVE WalkStepsThrows(_, _, _, _, _)

\* The while loop without the catch around the inner getDirectoryHandle.
WalkStepsThrows(s, handle, steps, create, kind) ==
    IF steps = <<>> THEN Resolved(NoHandle, s, "", FALSE)
    ELSE IF Len(steps) > 1
    THEN LET d == getDirectoryHandle(s, handle, Head(steps), create)
         IN  IF d.ok THEN WalkStepsThrows(d.fs, d.path, Tail(steps), create, kind)
             ELSE IF d.over THEN Resolved(NoHandle, s, "", TRUE)
             ELSE IF Append(handle, Head(steps)) \in DOMAIN s
             THEN Resolved(NoHandle, s, "TypeMismatchError", FALSE)
             ELSE Resolved(NoHandle, s, "NotFoundError", FALSE)
    ELSE ResolveLast(s, handle, Head(steps), create, kind)

\* The while loop: every segment but the last must be a directory.
RECURSIVE WalkSteps(_, _, _, _, _)
WalkSteps(s, handle, steps, create, kind) ==
    IF steps = <<>> THEN Resolved(NoHandle, s, "", FALSE)
    ELSE IF Len(steps) > 1
    THEN LET d == getDirectoryHandle(s, handle, Head(steps), create)
         IN  IF d.ok THEN WalkSteps(d.fs, d.path, Tail(steps), create, kind)
             ELSE Resolved(NoHandle, s, "", d.over)
    ELSE ResolveLast(s, handle, Head(steps), create, kind)

getDetails(s, opaqueId, returnParent, create, kind) ==
    IF opaqueId = RootId THEN Resolved(HandleOf(s, Root), s, "", FALSE)
    ELSE IF ~PathFromOk(opaqueId) THEN Resolved(NoHandle, s, "TypeError", FALSE)
    ELSE WalkSteps(s, Root,
                   IF returnParent THEN Parent(opaqueId) ELSE opaqueId,
                   create, kind)

\* What a handle primitive of the host does besides finding and not
\* finding: "none", or the fault it rejects every call with.
HostFaults == {"none", "NotAllowedError"}

\* The segments getDetails walks.
StepsOf(opaqueId, returnParent) ==
    IF returnParent THEN Parent(opaqueId) ELSE opaqueId

\* getDetails on a host whose handle primitives reject with fault: every
\* call of a primitive sits in a try with a bare catch that returns
\* undefined (the catch of the kind-less directory lookup tries the file
\* lookup, which rejects as well).
getDetailsOn(s, opaqueId, returnParent, create, kind, fault) ==
    IF \/ fault = "none"
       \/ opaqueId = RootId
       \/ ~PathFromOk(opaqueId)
       \/ StepsOf(opaqueId, returnParent) = <<>>
    THEN getDetails(s, opaqueId, returnParent, create, kind)
    ELSE Resolved(NoHandle, s, "", FALSE)

\* getDetails(root, path) with the default options.
Find(s, p) == getDetails(s, p, FALSE, FALSE, "any").h

\* The store after a resolution that creates what it misses.
AfterFindCreating(s, p) == getDetails(s, p, FALSE, TRUE, "any").fs

\* The store after getDetails(root, path) with the default options.
AfterFind(s, p) == getDetails(s, p, FALSE, FALSE, "any").fs

\* ------------------------------------------------------------------------
\* Results of the operations
\* ------------------------------------------------------------------------
\* res is "ok" or the name of the error thrown; fs is the store when the
\* call returns; pend holds, in the order they were started, the
\* removeEntry() calls it started and did not await; open holds the files on
\* which it opened a write sink that it did not close; depth is how deep
\* the calls of copyAll / moveAll on directories were nested in it.
\* res = "over" marks a call that leaves the bounds of the model.
Ret(res, s, pend) ==
    [res |-> res, fs |-> s, pend |-> pend, open |-> {}, depth |-> 0]

\* The deeper of two nestings of copyAll / moveAll calls.
Deeper(m, n) == IF m >= n THEN m ELSE n

Removal(dir, name, recursive) ==
    [dir |-> dir, name |-> name, recursive |-> recursive]

\* parent.removeEntry(name, {recursive}) taking effect in the store.  It
\* rejects, and changes nothing, when the entry is missing or is a directory
\* with children and recursive is not set.
RemoveEntryOk(s, r) ==
    LET q == Append(r.dir, r.name)
    IN  /\ IsDirAt(s, r.dir)
        /\ q \in DOMAIN s
        /\ (r.recursive \/ Children(s, q) = {})

removeEntry(s, r) ==
    IF RemoveEntryOk(s, r) THEN Prune(s, Append(r.dir, r.name)) ELSE s

\* All the removals in flight taking effect, in the order they were
\* started.
RECURSIVE SettleAll(_, _)
SettleAll(s, pend) ==
    IF pend = <<>> THEN s
    ELSE SettleAll(removeEntry(s, Head(pend)), Tail(pend))

\* ------------------------------------------------------------------------
\* Single-entry operations
\* ------------------------------------------------------------------------
\* const writable = await handle.createWritable(); await writable.write(..);
\* await writable.close(): when write() rejects, the fault leaves the method
\* at once, close() is not reached and the file keeps what it held.
Sink(s, p, contents, sinkFault) ==
    IF sinkFault = "none" THEN Ret("ok", WriteSink(s, p, contents), <<>>)
    ELSE [Ret(sinkFault, s, <<>>) EXCEPT !.open = {p}]

\* readFile / bytes: the content, or undefined (found = FALSE).
Undefined == [found |-> FALSE, data |-> <<>>]

readFile(s, filePath) ==
    LET h == Find(s, filePath)
    IN  IF ~h.ok \/ h.kind # "file" THEN Undefined
        ELSE [found |-> TRUE, data |-> s[h.path].data]

bytes(s, filePath) == readFile(s, filePath)

isFile(s, filePath) ==
    LET h == Find(s, filePath) IN h.ok /\ h.kind = "file"

isDirectory(s, dirPath) ==
    LET h == Find(s, dirPath) IN h.ok /\ h.kind = "directory"

write(s, filePath, contents, sinkFault) ==
    LET h == Find(s, filePath)
    IN  IF h.ok
        THEN \* a directory handle has no createWritable
             IF h.kind = "file"
             THEN Sink(s, h.path, contents, sinkFault)
             ELSE Ret("TypeError", s, <<>>)
        ELSE LET pr == getDetails(s, filePath, TRUE, TRUE, "directory")
                 parentHandle == IF pr.h.ok THEN pr.h.path ELSE Root
                 f == getFileHandle(pr.fs, parentHandle, NameOf(filePath), TRUE)
             IN  IF pr.over \/ f.over THEN Ret("over", s, <<>>)
                 ELSE IF ~f.ok THEN Ret("TypeMismatchError", pr.fs, <<>>)
                 ELSE Sink(f.fs, f.path, contents, sinkFault)

append(s, filePath, contents, sinkFault) ==
    LET h == Find(s, filePath)
    IN  IF ~h.ok THEN write(s, filePath, contents, sinkFault)
        ELSE IF h.kind # "file" THEN Ret("DirectoryError", s, <<>>)
        ELSE write(s, filePath, s[h.path].data \o contents, sinkFault)

\* append up to the end of its read: the error it throws, or the value it
\* goes on to write.
appendRead(s, filePath, contents) ==
    LET h == Find(s, filePath)
    IN  IF ~h.ok THEN [err |-> "", newValue |-> contents]
        ELSE IF h.kind # "file" THEN [err |-> "DirectoryError", newValue |-> <<>>]
        ELSE [err |-> "", newValue |-> s[h.path].data \o contents]

\* An append that reads the file again when it writes.
appendWriteFresh(s, call) ==
    LET now == bytes(s, call.path)
    IN  write(s, call.path,
              IF now.found THEN now.data \o call.contents ELSE call.contents,
              "none")

\* append from its read on: return this.write(filePath, newValue).
appendWrite(s, call) == write(s, call.path, call.newValue, "none")

\* The for loop of createDirectory over the segments left to create.
RECURSIVE MakeDirs(_, _, _)
MakeDirs(s, handle, steps) ==
    IF steps = <<>> THEN Ret("ok", s, <<>>)
    ELSE LET d == getDirectoryHandle(s, handle, Head(steps), TRUE)
         IN  IF d.over THEN Ret("over", s, <<>>)
             ELSE IF ~d.ok THEN Ret("TypeMismatchError", s, <<>>)
             ELSE MakeDirs(d.fs, d.path, Tail(steps))

\* createDirectory with a loop that does not step into the directory it
\* has just created: every segment is created under the root.
RECURSIVE createDirectoryFlat(_, _)
createDirectoryFlat(s, dirPath) ==
    IF dirPath = <<>> THEN Ret("ok", s, <<>>)
    ELSE LET d == getDirectoryHandle(s, Root, Head(dirPath), TRUE)
         IN  IF ~d.ok THEN Ret("TypeMismatchError", s, <<>>)
             ELSE createDirectoryFlat(d.fs, Tail(dirPath))

\* createDirectory that replaces a directory it finds by a new, empty one.
createDirectoryAnew(s, dirPath) ==
    LET r == MakeDirs(s, Root, dirPath)
    IN  IF r.res # "ok" THEN r
        ELSE Ret("ok", [q \in (DOMAIN r.fs) \ Below(r.fs, dirPath) |-> r.fs[q]], <<>>)

createDirectory(s, dirPath) == MakeDirs(s, Root, dirPath)

\* delete without the peek at the directory's entries.
deleteNoPeek(s, opaqueId) ==
    LET h == Find(s, opaqueId)
        pr == getDetails(s, opaqueId, TRUE, FALSE, "any").h
        parentHandle == IF pr.ok THEN pr.path ELSE Root
    IN  IF ~h.ok THEN Ret("NotFoundError", s, <<>>)
        ELSE Ret("ok", s, <<Removal(parentHandle, HandleName(h), FALSE)>>)

\* delete: the removal is started and the call returns without awaiting it.
delete(s, opaqueId) ==
    LET h == Find(s, opaqueId)
        pr == getDetails(s, opaqueId, TRUE, FALSE, "any").h
        parentHandle == IF pr.ok THEN pr.path ELSE Root
    IN  IF ~h.ok THEN Ret("NotFoundError", s, <<>>)
        ELSE IF h.kind = "directory" /\ Children(s, h.path) # {}
        THEN Ret("NotEmptyError", s, <<>>)
        ELSE Ret("ok", s, <<Removal(parentHandle, HandleName(h), FALSE)>>)

\* deleteAll that takes a missing target for one already deleted.
deleteAllQuiet(s, opaqueId, nativeRemove) ==
    LET h == Find(s, opaqueId)
        pr == getDetails(s, opaqueId, TRUE, FALSE, "any").h
        parentHandle == IF pr.ok THEN pr.path ELSE Root
    IN  IF ~h.ok THEN Ret("ok", s, <<>>)
        ELSE IF nativeRemove
        THEN Ret("ok", IF h.path = Root THEN EmptyStore ELSE Prune(s, h.path), <<>>)
        ELSE Ret("ok", s, <<Removal(parentHandle, HandleName(h), TRUE)>>)

\* deleteAll: handle.remove({recursive}) is awaited where the host offers
\* it; the removeEntry fallback is started and not awaited.  remove() on the
\* root directory empties it.
deleteAll(s, opaqueId, nativeRemove) ==
    LET h == Find(s, opaqueId)
        pr == getDetails(s, opaqueId, TRUE, FALSE, "any").h
        parentHandle == IF pr.ok THEN pr.path ELSE Root
    IN  IF ~h.ok THEN Ret("NotFoundError", s, <<>>)
        ELSE IF nativeRemove
        THEN Ret("ok", IF h.path = Root THEN EmptyStore ELSE Prune(s, h.path), <<>>)
        ELSE Ret("ok", s, <<Removal(parentHandle, HandleName(h), TRUE)>>)

\* ------------------------------------------------------------------------
\* list
\* ------------------------------------------------------------------------
\* The order in which a directory yields its entries is the store's: the
\* names in this order, or in the reverse order.
NameOrder == <<"a", "b", "root">>

Reversed(seq) == [i \in 1..Len(seq) |-> seq[Len(seq) + 1 - i]]

RECURSIVE EntriesIn(_, _, _)
EntriesIn(s, d, names) ==
    IF names = <<>> THEN <<>>
    ELSE LET q == Append(d, Head(names))
         IN  (IF q \in DOMAIN s
              THEN <<[name |-> Head(names),
                      isDirectory |-> s[q].kind = "directory",
                      isFile |-> s[q].kind = "file",
                      isSymlink |-> FALSE]>>
              ELSE <<>>) \o EntriesIn(s, d, Tail(names))

\* A list that also yields the entries of the first child directory.
listDeep(s, dirPath, rev) ==
    LET h == Find(s, dirPath)
        names == IF rev THEN Reversed(NameOrder) ELSE NameOrder
        top == IF h.ok THEN EntriesIn(s, h.path, names) ELSE <<>>
    IN  IF top = <<>> THEN top
        ELSE top \o EntriesIn(s, Append(h.path, Head(top).name), names)

\* list(dirPath): the records of the children, taken when the walk starts.
list(s, dirPath, rev) ==
    LET h == Find(s, dirPath)
    IN  IF ~h.ok THEN <<>>
        ELSE EntriesIn(s, h.path, IF rev THEN Reversed(NameOrder) ELSE NameOrder)

\* list(dirPath) to its end: a file handle has no values(), so the
\* iteration throws TypeError; otherwise the records yielded.
listAll(s, dirPath, rev) ==
    IF isFile(s, dirPath) THEN [err |-> "TypeError", entries |-> <<>>]
    ELSE [err |-> "", entries |-> list(s, dirPath, rev)]

\* ------------------------------------------------------------------------
\* size and lastModified
\* ------------------------------------------------------------------------
\* size that answers 0 for a file it does not find.
sizeOrZero(s, filePath) ==
    LET h == Find(s, filePath)
    IN  IF h.ok /\ h.kind # "file" THEN Undefined
        ELSE IF ~h.ok THEN [found |-> TRUE, data |-> <<0>>]
        ELSE [found |-> TRUE, data |-> <<Len(s[h.path].data)>>]

\* size: the number of bytes, or undefined.
size(s, filePath) ==
    LET h == Find(s, filePath)
    IN  IF ~h.ok \/ h.kind # "file" THEN Undefined
        ELSE [found |-> TRUE, data |-> <<Len(s[h.path].data)>>]

\* new Date(0), the date lastModified starts a directory with.
Epoch == 0

\* The values of file.lastModified, and the value of new Date().
Times == 1..MaxTime

Now == MaxTime + 1

NoDate == [found |-> FALSE, data |-> <<>>]

RECURSIVE lastModified(_, _, _)
RECURSIVE LatestOf(_, _, _, _, _)

\* The for-await loop of lastModified over the entries left to look at.
LatestOf(s, opaqueId, entries, times, latest) ==
    IF entries = <<>> THEN latest
    ELSE LET date == lastModified(s, Append(opaqueId, Head(entries).name), times)
             later == date.found /\ date.data[1] > latest
         IN  LatestOf(s, opaqueId, Tail(entries), times,
                      IF later THEN date.data[1] ELSE latest)

\* lastModified: times gives file.lastModified of every file.
lastModified(s, opaqueId, times) ==
    LET h == Find(s, opaqueId)
    IN  IF ~h.ok THEN NoDate
        ELSE IF h.kind = "file"
        THEN [found |-> TRUE, data |-> <<times[h.path]>>]
        ELSE LET latest == LatestOf(s, opaqueId, list(s, opaqueId, FALSE),
                                    times, Epoch)
             IN  [found |-> TRUE,
                  data |-> <<IF latest = Epoch THEN Now ELSE latest>>]

\* ------------------------------------------------------------------------
\* copy and copyAll
\* ------------------------------------------------------------------------
\* copy with the write to the sink left out: the destination is created and
\* stays empty.
copyNoWrite(s, source, destination, sinkFault) ==
    LET fromHandle == Find(s, source)
        to == getDetails(s, destination, FALSE, TRUE, "file")
    IN  IF ~fromHandle.ok THEN Ret("NotFoundError", s, <<>>)
        ELSE IF fromHandle.kind # "file" THEN Ret("DirectoryError", s, <<>>)
        ELSE IF isDirectory(s, destination) THEN Ret("DirectoryError", s, <<>>)
        ELSE IF to.over THEN Ret("over", s, <<>>)
        ELSE IF ~to.h.ok THEN Ret("TypeError", to.fs, <<>>)
        ELSE Sink(to.fs, to.h.path, <<>>, sinkFault)

\* copy without the look at the destination's kind.
copyOverDirectory(s, source, destination, sinkFault) ==
    LET fromHandle == Find(s, source)
        to == getDetails(s, destination, FALSE, TRUE, "file")
    IN  IF ~fromHandle.ok THEN Ret("NotFoundError", s, <<>>)
        ELSE IF fromHandle.kind # "file" THEN Ret("DirectoryError", s, <<>>)
        ELSE IF to.over THEN Ret("over", s, <<>>)
        ELSE IF ~to.h.ok THEN Ret("TypeError", to.fs, <<>>)
        ELSE Sink(to.fs, to.h.path, s[fromHandle.path].data, sinkFault)

copy(s, source, destination, sinkFault) ==
    LET fromHandle == Find(s, source)
        to == getDetails(s, destination, FALSE, TRUE, "file")
    IN  IF ~fromHandle.ok THEN Ret("NotFoundError", s, <<>>)
        ELSE IF fromHandle.kind # "file" THEN Ret("DirectoryError", s, <<>>)
        ELSE IF isDirectory(s, destination) THEN Ret("DirectoryError", s, <<>>)
        ELSE IF to.over THEN Ret("over", s, <<>>)
        ELSE IF ~to.h.ok THEN Ret("TypeError", to.fs, <<>>)
        ELSE Sink(to.fs, to.h.path, s[fromHandle.path].data, sinkFault)

RECURSIVE copyAll(_, _, _, _)
RECURSIVE CopyEach(_, _, _, _, _)

RECURSIVE CopyEachOn(_, _, _, _, _)

\* The loop of copyAll that goes on to the next entry after a failure.
CopyEachOn(s, source, destination, entries, env) ==
    IF entries = <<>> THEN Ret("ok", s, <<>>)
    ELSE LET entry == Head(entries)
             sourcePath == Append(source, entry.name)
             destinationPath == Append(destination, entry.name)
             r == IF entry.isDirectory
                  THEN copyAll(s, sourcePath, destinationPath, env)
                  ELSE copy(s, sourcePath, destinationPath, env.sinkFault)
         IN  CopyEachOn(r.fs, source, destination, Tail(entries), env)

RECURSIVE CopyEachNoPop(_, _, _, _, _)

\* The loop of copyAll that does not pop the destination cursor.
CopyEachNoPop(s, source, destination, entries, env) ==
    IF entries = <<>> THEN Ret("ok", s, <<>>)
    ELSE LET entry == Head(entries)
             sourcePath == Append(source, entry.name)
             destinationPath == Append(destination, entry.name)
             r == IF entry.isDirectory
                  THEN copyAll(s, sourcePath, destinationPath, env)
                  ELSE copy(s, sourcePath, destinationPath, env.sinkFault)
         IN  IF r.res # "ok" THEN r
             ELSE CopyEachNoPop(r.fs, Parent(sourcePath), destinationPath,
                                Tail(entries), env)

\* The for-await loop of copyAll over the entries left to copy.
CopyEach(s, source, destination, entries, env) ==
    IF entries = <<>> THEN Ret("ok", s, <<>>)
    ELSE LET entry == Head(entries)
             sourcePath == Append(source, entry.name)
             destinationPath == Append(destination, entry.name)
             r == IF entry.isDirectory
                  THEN copyAll(s, sourcePath, destinationPath, env)
                  ELSE copy(s, sourcePath, destinationPath, env.sinkFault)
         IN  IF r.res # "ok" THEN r
             ELSE \* destinationPath.pop(); sourcePath.pop()
                  [CopyEach(r.fs, Parent(sourcePath), Parent(destinationPath),
                            Tail(entries), env)
                      EXCEPT !.depth = Deeper(r.depth, @)]

\* depth counts this call on a directory and the calls nested in it.
copyAll(s, source, destination, env) ==
    IF isFile(s, source) THEN copy(s, source, destination, env.sinkFault)
    ELSE IF ~isDirectory(s, source) THEN Ret("NotFoundError", s, <<>>)
    ELSE LET c == createDirectory(s, destination)
         IN  IF c.res # "ok" THEN [c EXCEPT !.depth = 1]
             ELSE [CopyEach(c.fs, source, destination,
                            list(c.fs, source, env.rev), env)
                      EXCEPT !.depth = @ + 1]

\* ------------------------------------------------------------------------
\* move and moveAll
\* ------------------------------------------------------------------------
\* fileHandle.move(parent, name): the file is now parent/name, replacing a
\* file of that name; it rejects over a directory.
MoveFile(s, src, parent, name) ==
    LET q == Append(parent, name)
    IN  IF q = src THEN Ret("ok", s, <<>>)
        ELSE IF q \in DOMAIN s /\ s[q].kind = "directory"
        THEN Ret("TypeMismatchError", s, <<>>)
        ELSE Ret("ok", Put(Prune(s, src), q, s[src]), <<>>)

\* directoryHandle.move(parent, name): the whole subtree is now rooted at
\* parent/name; it rejects for the root, over an existing entry and into
\* the directory itself.
MoveTree(s, src, parent, name) ==
    LET q == Append(parent, name)
        moved == {r \in DOMAIN s : IsPrefix(src, r)}
        To(r) == q \o SubSeq(r, Len(src) + 1, Len(r))
        rest == Prune(s, src)
    IN  IF src = Root \/ q \in DOMAIN s \/ IsPrefix(src, q)
        THEN Ret("InvalidModificationError", s, <<>>)
        ELSE IF \E r \in moved : Len(To(r)) > MaxDepth THEN Ret("over", s, <<>>)
        ELSE Ret("ok",
                 [t \in (DOMAIN rest) \cup {To(r) : r \in moved} |->
                     IF t \in DOMAIN rest THEN rest[t]
                     ELSE s[src \o SubSeq(t, Len(q) + 1, Len(t))]],
                 <<>>)

\* move with a handler that takes every fault of the host's move() for the
\* one it works around.
moveAnyFault(s, source, destination, env) ==
    LET handle == Find(s, source)
        moveFault == env.moveFault
        dp == getDetails(s, Parent(destination), FALSE, TRUE, "directory")
        c == copy(dp.fs, source, destination, env.sinkFault)
        d == delete(c.fs, source)
    IN  IF ~handle.ok THEN Ret("NotFoundError", s, <<>>)
        ELSE IF handle.kind # "file" THEN Ret("DirectoryError", s, <<>>)
        ELSE IF dp.err # "" THEN Ret(dp.err, s, <<>>)
        ELSE IF dp.over THEN Ret("over", s, <<>>)
        ELSE IF ~dp.h.ok THEN Ret("TypeError", dp.fs, <<>>)
        ELSE IF moveFault # "none"
        THEN IF c.res # "ok" THEN c ELSE d
        ELSE MoveFile(dp.fs, handle.path, dp.h.path, NameOf(destination))

\* A move that resolves the parent of its destination, creating it, before
\* it checks its source.
moveParentFirst(s, source, destination, env) ==
    LET handle == Find(s, source)
        moveFault == env.moveFault
        dp == getDetails(s, Parent(destination), FALSE, TRUE, "directory")
        made == IF dp.over THEN s ELSE dp.fs
        c == copy(dp.fs, source, destination, env.sinkFault)
        d == delete(c.fs, source)
    IN  IF ~handle.ok THEN Ret("NotFoundError", made, <<>>)
        ELSE IF handle.kind # "file" THEN Ret("DirectoryError", made, <<>>)
        ELSE IF dp.err # "" THEN Ret(dp.err, s, <<>>)
        ELSE IF dp.over THEN Ret("over", s, <<>>)
        ELSE IF ~dp.h.ok THEN Ret("TypeError", dp.fs, <<>>)
        ELSE IF moveFault = "NotAllowedError"
        THEN IF c.res # "ok" THEN c ELSE d
        ELSE IF moveFault # "none" THEN Ret(moveFault, dp.fs, <<>>)
        ELSE MoveFile(dp.fs, handle.path, dp.h.path, NameOf(destination))

\* env.moveFault is what the host's move() does with a file: "none", or the
\* name of the fault it rejects with.
move(s, source, destination, env) ==
    LET handle == Find(s, source)
        moveFault == env.moveFault
        dp == getDetails(s, Parent(destination), FALSE, TRUE, "directory")
        c == copy(dp.fs, source, destination, env.sinkFault)
        d == delete(c.fs, source)
    IN  IF ~handle.ok THEN Ret("NotFoundError", s, <<>>)
        ELSE IF handle.kind # "file" THEN Ret("DirectoryError", s, <<>>)
        ELSE IF dp.err # "" THEN Ret(dp.err, s, <<>>)
        ELSE IF dp.over THEN Ret("over", s, <<>>)
        ELSE IF ~dp.h.ok THEN Ret("TypeError", dp.fs, <<>>)
        ELSE IF moveFault = "NotAllowedError"
        THEN \* handleChromeError: copy, then delete
             IF c.res # "ok" THEN c ELSE d
        ELSE IF moveFault # "none" THEN Ret(moveFault, dp.fs, <<>>)
        ELSE MoveFile(dp.fs, handle.path, dp.h.path, NameOf(destination))

RECURSIVE moveAll(_, _, _, _)
RECURSIVE MoveEach(_, _, _, _, _, _)

\* The store and the removals in flight after an await: with env.early the
\* removals started so far have taken effect, otherwise none has.
AfterAwait(r, pend, env) ==
    IF env.early THEN Ret(r.res, SettleAll(r.fs, pend \o r.pend), <<>>)
    ELSE Ret(r.res, r.fs, pend \o r.pend)

RECURSIVE MoveEachRash(_, _, _, _, _, _)

\* The loop of moveAll that removes the source, with what is left in it,
\* when the move of a child fails.
MoveEachRash(s, pend, source, destination, entries, env) ==
    IF entries = <<>>
    THEN LET d == delete(s, source) IN Ret(d.res, d.fs, pend \o d.pend)
    ELSE LET entry == Head(entries)
             sourcePath == Append(source, entry.name)
             destinationPath == Append(destination, entry.name)
             r == IF entry.isDirectory
                  THEN moveAll(s, sourcePath, destinationPath, env)
                  ELSE move(s, sourcePath, destinationPath, env)
             a == AfterAwait(r, pend, env)
         IN  IF r.res # "ok"
             THEN [r EXCEPT !.pend = pend \o @ \o
                       <<Removal(Parent(source), NameOf(source), TRUE)>>]
             ELSE MoveEachRash(a.fs, a.pend, Parent(sourcePath),
                               Parent(destinationPath), Tail(entries), env)

\* The for-await loop of moveAll over the entries left to move, and the
\* delete of the source that follows it.
MoveEach(s, pend, source, destination, entries, env) ==
    IF entries = <<>>
    THEN LET d == delete(s, source) IN Ret(d.res, d.fs, pend \o d.pend)
    ELSE LET entry == Head(entries)
             sourcePath == Append(source, entry.name)
             destinationPath == Append(destination, entry.name)
             r == IF entry.isDirectory
                  THEN moveAll(s, sourcePath, destinationPath, env)
                  ELSE move(s, sourcePath, destinationPath, env)
             a == AfterAwait(r, pend, env)
         IN  IF r.res # "ok" THEN [r EXCEPT !.pend = pend \o @]
             ELSE \* destinationPath.pop(); sourcePath.pop()
                  [MoveEach(a.fs, a.pend, Parent(sourcePath),
                            Parent(destinationPath), Tail(entries), env)
                      EXCEPT !.depth = Deeper(r.depth, @)]

moveAll(s, source, destination, env) ==
    LET handle == Find(s, source)
        dp == getDetails(s, Parent(destination), FALSE, TRUE, "directory")
        c == createDirectory(s, destination)
    IN  IF ~handle.ok THEN Ret("NotFoundError", s, <<>>)
        ELSE IF handle.kind = "file"
        THEN move(s, source, destination, env)
        ELSE IF env.dirMove
        THEN IF dp.err # "" THEN Ret(dp.err, s, <<>>)
             ELSE IF dp.over THEN Ret("over", s, <<>>)
             ELSE IF ~dp.h.ok THEN Ret("TypeError", dp.fs, <<>>)
             ELSE MoveTree(dp.fs, handle.path, dp.h.path, NameOf(destination))
        ELSE IF c.res # "ok" THEN [c EXCEPT !.depth = 1]
        ELSE [MoveEach(c.fs, <<>>, source, destination,
                       list(c.fs, source, env.rev), env)
                 EXCEPT !.depth = @ + 1]

\* ------------------------------------------------------------------------
\* The state machine
\* ------------------------------------------------------------------------
VARIABLES
    fs,        \* the store
    pending,   \* the removeEntry() calls started and not yet completed, oldest first
    hist,      \* the calls made so far and the removals completed, in order
    fs0,       \* the store the adapter was constructed over
    open,      \* the files with a write sink that was opened and not closed
    calls      \* the calls of append that run concurrently, by caller

vars == <<fs, pending, hist, fs0, open, calls>>

\* What the host offers and does during one call: a native remove() on
\* handles, a native move() on directory handles, the outcome of move() on a
\* file handle, whether removals in flight take effect at the next await,
\* the order of enumeration, and the outcome of write() on a sink.
NoEnv ==
    [remove |-> FALSE, dirMove |-> FALSE, moveFault |-> "none",
     early |-> FALSE, rev |-> FALSE, sinkFault |-> "none"]

MoveFaults == {"none", "NotAllowedError", "InvalidStateError", "AbortError"}

RemoveEnvs(s, p) ==
    IF Find(s, p).ok THEN {[NoEnv EXCEPT !.remove = b] : b \in BOOLEAN}
    ELSE {NoEnv}

\* write, append and copy consult the host for the sink's write().
SinkEnvs == {[NoEnv EXCEPT !.sinkFault = f] : f \in SinkFaults}

\* copyAll consults the host for the order of enumeration when some
\* directory has two entries, and for the sink when there is a file to copy.
CopyEnvs(s, p) ==
    IF isDirectory(s, p)
    THEN LET d == Find(s, p).path
             dirs == {d} \cup {q \in Below(s, d) : s[q].kind = "directory"}
             sinks == IF \E q \in Below(s, d) : s[q].kind = "file"
                      THEN SinkFaults ELSE {"none"}
             revs == IF \E q \in dirs : Cardinality(Children(s, q)) >= 2
                     THEN BOOLEAN ELSE {FALSE}
         IN  {[NoEnv EXCEPT !.rev = v, !.sinkFault = f] : v \in revs, f \in sinks}
    ELSE IF isFile(s, p) THEN SinkEnvs
    ELSE {NoEnv}

\* The outcomes of the host's move() on a file; the sink is reached only by
\* the copy that follows NotAllowedError.
FileMoveEnvs ==
    {[NoEnv EXCEPT !.moveFault = f] : f \in MoveFaults} \cup
    {[NoEnv EXCEPT !.moveFault = "NotAllowedError", !.sinkFault = f] :
        f \in SinkFaults}

MoveEnvs(s, p) == IF isFile(s, p) THEN FileMoveEnvs ELSE {NoEnv}

\* moveAll consults the host only for what the source holds: move() on a
\* file when there is a file to move, the order of enumeration when some
\* directory has two entries, and the fate of a removal in flight when a
\* removal is started before the last one.
MoveAllEnvs(s, p) ==
    IF isDirectory(s, p)
    THEN LET d == Find(s, p).path
             dirs == {d} \cup {q \in Below(s, d) : s[q].kind = "directory"}
             faults == IF \E q \in Below(s, d) : s[q].kind = "file"
                       THEN FileMoveEnvs ELSE {NoEnv}
             earlies == IF Below(s, d) # {} THEN BOOLEAN ELSE {FALSE}
             revs == IF \E q \in dirs : Cardinality(Children(s, q)) >= 2
                     THEN BOOLEAN ELSE {FALSE}
         IN  {[NoEnv EXCEPT !.dirMove = TRUE]} \cup
             {[f EXCEPT !.early = e, !.rev = v] :
                 f \in faults, e \in earlies, v \in revs}
    ELSE MoveEnvs(s, p)

\* A call whose source does not resolve fails before it looks at its
\* destination: one destination stands for all of them.
Dests(P, s, p) == IF Find(s, p).ok THEN P ELSE {p}

Call(op, src, dst, data, env, r) ==
    [op |-> op, src |-> src, dst |-> dst, data |-> data, env |-> env,
     res |-> r.res, pre |-> bytes(fs, src), depth |-> r.depth]

Settled(r) ==
    [op |-> "settle", src |-> Append(r.dir, r.name), dst |-> Root,
     data |-> <<>>, env |-> NoEnv,
     res |-> IF RemoveEntryOk(fs, r) THEN "ok" ELSE "rejected",
     pre |-> Undefined]

IsCall(c) == c.op # "settle"

\* The call's result is the new state; a call that leaves the bounds of the
\* model is not made.
Return(op, src, dst, data, env, r) ==
    /\ r.res # "over"
    /\ fs' = r.fs
    /\ pending' = pending \o r.pend
    /\ hist' = Append(hist, Call(op, src, dst, data, env, r))
    /\ fs0' = fs0
    /\ open' = open \cup r.open
    /\ calls' = calls

\* A call of copyAll or moveAll as far as the model follows it: it has
\* returned, or (res "over") it has walked down below MaxDepth and goes on.
Reach(op, src, dst, data, env, r) ==
    /\ fs' = r.fs
    /\ pending' = pending \o r.pend
    /\ hist' = Append(hist, Call(op, src, dst, data, env, r))
    /\ fs0' = fs0
    /\ open' = open \cup r.open
    /\ calls' = calls

Write(P, may, E) ==
    /\ may
    /\ \E p \in P, b \in Data, env \in E :
          \E r \in {write(fs, p, b, env.sinkFault)} :
              Return("write", p, Root, b, env, r)

AppendTo(P, may, E) ==
    /\ may
    /\ \E p \in P, b \in Data, env \in E :
          \E r \in {append(fs, p, b, env.sinkFault)} :
              Return("append", p, Root, b, env, r)

CreateDirectory(P, may) ==
    /\ may
    /\ \E p \in P :
          \E r \in {createDirectory(fs, p)} :
              Return("createDirectory", p, Root, <<>>, NoEnv, r)

Delete(P, may) ==
    /\ may
    /\ \E p \in P :
          \E r \in {delete(fs, p)} :
              Return("delete", p, Root, <<>>, NoEnv, r)

DeleteAll(P, may) ==
    /\ may
    /\ \E p \in P : \E env \in RemoveEnvs(fs, p) :
          \E r \in {deleteAll(fs, p, env.remove)} :
              Return("deleteAll", p, Root, <<>>, env, r)

Copy(P, may) ==
    /\ may
    /\ \E p \in P : \E q \in Dests(P, fs, p) :
          \E env \in (IF isFile(fs, p) THEN SinkEnvs ELSE {NoEnv}) :
              \E r \in {copy(fs, p, q, env.sinkFault)} :
                  Return("copy", p, q, <<>>, env, r)

CopyAll(P, may) ==
    /\ may
    /\ \E p \in P : \E q \in Dests(P, fs, p) : \E env \in CopyEnvs(fs, p) :
          \E r \in {copyAll(fs, p, q, env)} :
              Return("copyAll", p, q, <<>>, env, r)

CopyAllWalk(P, may) ==
    /\ may
    /\ \E p \in P : \E q \in Dests(P, fs, p) : \E env \in CopyEnvs(fs, p) :
          \E r \in {copyAll(fs, p, q, env)} :
              Reach("copyAll", p, q, <<>>, env, r)

MoveAllWalk(P, may) ==
    /\ may
    /\ \E p \in P : \E q \in Dests(P, fs, p) : \E env \in MoveAllEnvs(fs, p) :
          \E r \in {moveAll(fs, p, q, env)} :
              Reach("moveAll", p, q, <<>>, env, r)

Move(P, may) ==
    /\ may
    /\ \E p \in P : \E q \in Dests(P, fs, p) : \E env \in MoveEnvs(fs, p) :
          \E r \in {move(fs, p, q, env)} :
              Return("move", p, q, <<>>, env, r)

MoveAll(P, may) ==
    /\ may
    /\ \E p \in P : \E q \in Dests(P, fs, p) : \E env \in MoveAllEnvs(fs, p) :
          \E r \in {moveAll(fs, p, q, env)} :
              Return("moveAll", p, q, <<>>, env, r)

\* A reading operation answers; the store is as its resolution of the path
\* left it.
Answer(op, src, res, data, env) ==
    /\ hist' = Append(hist, [op |-> op, src |-> src, dst |-> Root,
                             data |-> data, env |-> env, res |-> res,
                             pre |-> bytes(fs, src)])
    /\ fs' = AfterFind(fs, src)
    /\ UNCHANGED <<pending, fs0, open, calls>>

Value(v) == IF v.found THEN "value" ELSE "undefined"

Truth(b) == IF b THEN "true" ELSE "false"

Bytes(P, may) ==
    /\ may
    /\ \E p \in P : \E v \in {bytes(fs, p)} :
          Answer("bytes", p, Value(v), v.data, NoEnv)

Size(P, may) ==
    /\ may
    /\ \E p \in P : \E v \in {size(fs, p)} :
          Answer("size", p, Value(v), v.data, NoEnv)

LastModified(P, may) ==
    /\ may
    /\ \E p \in P : \E times \in [{q \in DOMAIN fs : fs[q].kind = "file"} -> Times] :
          \E v \in {lastModified(fs, p, times)} :
              Answer("lastModified", p, Value(v), v.data, [times |-> times])

List(P, may) ==
    /\ may
    /\ \E p \in P : \E rev \in BOOLEAN :
          \E l \in {listAll(fs, p, rev)} :
              Answer("list", p, IF l.err = "" THEN "value" ELSE l.err,
                     l.entries, [rev |-> rev])

IsFile(P, may) ==
    /\ may
    /\ \E p \in P : Answer("isFile", p, Truth(isFile(fs, p)), <<>>, NoEnv)

IsDirectory(P, may) ==
    /\ may
    /\ \E p \in P : Answer("isDirectory", p, Truth(isDirectory(fs, p)), <<>>, NoEnv)

\* The options of getDetails and what the host does during the call.
Options ==
    [returnParent : BOOLEAN, create : BOOLEAN,
     kind : {"any", "file", "directory"}, fault : HostFaults]

\* A call of getDetails returns: undefined, a handle, or a fault.
GetDetails(P, may) ==
    /\ may
    /\ \E p \in P : \E o \in Options :
          \E r \in {getDetailsOn(fs, p, o.returnParent, o.create, o.kind, o.fault)} :
              /\ ~r.over
              /\ fs' = r.fs
              /\ hist' = Append(hist,
                     [op |-> "getDetails", src |-> p, dst |-> r.h.path,
                      data |-> <<>>, env |-> o,
                      res |-> IF r.err # "" THEN r.err
                              ELSE IF r.h.ok THEN "handle" ELSE "undefined",
                      pre |-> Undefined])
              /\ UNCHANGED <<pending, fs0, open, calls>>

\* The callers that run append concurrently.
Callers == 1..MaxCallers

Idle == [pc |-> "idle", path |-> Root, contents |-> <<>>, newValue |-> <<>>,
         res |-> ""]

\* Caller i calls append(p, b), which runs up to the end of its read.
AppendRead(i, P) ==
    /\ calls[i].pc = "idle"
    /\ \E p \in P : \E b \in Data :
          \E rd \in {appendRead(fs, p, b)} :
              calls' = [calls EXCEPT ![i] =
                          [pc |-> IF rd.err = "" THEN "read" ELSE "done",
                           path |-> p, contents |-> b,
                           newValue |-> rd.newValue, res |-> rd.err]]
    /\ UNCHANGED <<fs, pending, hist, fs0, open>>

\* The append of caller i writes what it computed and returns.
AppendWrite(i) ==
    /\ calls[i].pc = "read"
    /\ \E r \in {appendWrite(fs, calls[i])} :
          /\ r.res # "over"
          /\ fs' = r.fs
          /\ calls' = [calls EXCEPT ![i].pc = "done", ![i].res = r.res]
    /\ UNCHANGED <<pending, hist, fs0, open>>

\* The oldest removeEntry() that was started and not awaited takes effect,
\* or rejects with nobody to hear it.
SettleRemoval ==
    /\ pending # <<>>
    /\ fs' = removeEntry(fs, Head(pending))
    /\ pending' = Tail(pending)
    /\ hist' = Append(hist, Settled(Head(pending)))
    /\ fs0' = fs0
    /\ open' = open
    /\ calls' = calls

\* One call on a store that holds anything the bounds allow.
Init ==
    /\ fs0 \in InitStores
    /\ fs = fs0
    /\ pending = <<>>
    /\ hist = <<>>
    /\ open = {}
    /\ calls = <<>>

Fresh == hist = <<>>

Next ==
    \/ Write(Paths, Fresh, SinkEnvs)
    \/ AppendTo(Paths, Fresh, SinkEnvs)
    \/ CreateDirectory(Paths, Fresh)
    \/ Delete(Paths, Fresh)
    \/ DeleteAll(Paths, Fresh)
    \/ Copy(Paths, Fresh)
    \/ CopyAll(Paths, Fresh)
    \/ Move(Paths, Fresh)
    \/ MoveAll(Paths, Fresh)
    \/ SettleRemoval

Spec == Init /\ [][Next]_vars

\* A sequence of single-entry calls on a store that starts empty, on a host
\* whose sinks do not fault.
InitSeq ==
    /\ fs0 = EmptyStore
    /\ fs = fs0
    /\ pending = <<>>
    /\ hist = <<>>
    /\ open = {}
    /\ calls = <<>>

MayCall == Len(SelectSeq(hist, IsCall)) < MaxOps

NextSeq ==
    \/ Write(SeqPaths, MayCall, {NoEnv})
    \/ AppendTo(SeqPaths, MayCall, {NoEnv})
    \/ CreateDirectory(SeqPaths, MayCall)
    \/ Delete(SeqPaths, MayCall)
    \/ SettleRemoval

SpecSeq == InitSeq /\ [][NextSeq]_vars

\* One reading call on a store that holds anything the bounds allow.
NextRead ==
    \/ Bytes(Paths, Fresh)
    \/ Size(Paths, Fresh)
    \/ LastModified(Paths, Fresh)
    \/ List(Paths, Fresh)
    \/ IsFile(Paths, Fresh)
    \/ IsDirectory(Paths, Fresh)

SpecRead == Init /\ [][NextRead]_vars

\* One call of the path resolver on a store that holds anything the bounds
\* allow; move hands it the empty path for a top-level destination.
NextResolve == GetDetails(Paths \cup {Root}, Fresh)

SpecResolve == Init /\ [][NextResolve]_vars

\* Concurrent calls of append, one per caller, on a small store.
InitRace ==
    /\ fs0 \in StoresUpTo(SeqDepth, SeqDepth)
    /\ fs = fs0
    /\ pending = <<>>
    /\ hist = <<>>
    /\ open = {}
    /\ calls = [i \in Callers |-> Idle]

NextRace ==
    \/ \E i \in Callers : AppendRead(i, SeqPaths)
    \/ \E i \in Callers : AppendWrite(i)

SpecRace == InitRace /\ [][NextRace]_vars

\* One copyAll or moveAll, followed down to MaxDepth, on a store that holds
\* anything the bounds allow.
NextWalk ==
    \/ CopyAllWalk(Paths, Fresh)
    \/ MoveAllWalk(Paths, Fresh)

SpecWalk == Init /\ [][NextWalk]_vars

\* One copyAll on a store that holds anything the bounds allow, down to
\* MaxDepth.
InitCopy ==
    /\ fs0 \in DeepStores
    /\ fs = fs0
    /\ pending = <<>>
    /\ hist = <<>>
    /\ open = {}
    /\ calls = <<>>

NextCopy == CopyAll(DeepPaths, Fresh)

SpecCopy == InitCopy /\ [][NextCopy]_vars

\* ------------------------------------------------------------------------
\* What a caller can observe when a call has returned
\* ------------------------------------------------------------------------
\* The last thing that happened: a call that returned, or a removal that
\* completed.
Last == hist[Len(hist)]

\* The state is the one in which a call of op has just returned.
Returned(op) == hist # <<>> /\ Last.op = op

ReturnedOk(op) == Returned(op) /\ Last.res = "ok"

Holds(b) == [found |-> TRUE, data |-> b]

\* ------------------------------------------------------------------------
\* write and append
\* ------------------------------------------------------------------------
\* C1: when write(p, b) has completed successfully, bytes(p) called next
\* returns exactly b, whether or not the ancestors of p existed and whatever
\* p held before.
WriteThenBytes ==
    ReturnedOk("write") => bytes(fs, Last.src) = Holds(Last.data)

\* The last two things that happened are two calls of append on one path.
TwoAppends ==
    /\ Len(hist) >= 2
    /\ Last.op = "append"
    /\ hist[Len(hist) - 1].op = "append"
    /\ hist[Len(hist) - 1].src = Last.src

\* C2: append(p, b1) then append(p, b2), both successful and with nothing
\* in between, leave bytes(p) = b1 ++ b2 when p was absent and c ++ b1 ++ b2
\* when p was a file holding c.
AppendTwice ==
    TwoAppends /\ Last.res = "ok" /\ hist[Len(hist) - 1].res = "ok"
        => LET first == hist[Len(hist) - 1]
               c == IF first.pre.found THEN first.pre.data ELSE <<>>
           IN  bytes(fs, Last.src) = Holds(c \o first.data \o Last.data)

\* ------------------------------------------------------------------------
\* copyAll
\* ------------------------------------------------------------------------
\* The part of q below base.
Rel(base, q) == SubSeq(q, Len(base) + 1, Len(q))

\* The entries at and below p, by their position relative to p.
Subtree(s, p) ==
    [r \in {Rel(p, q) : q \in {x \in DOMAIN s : IsPrefix(p, x)}} |-> s[p \o r]]

\* The directory the source argument of the last call stood for.
SrcDir == Find(fs0, Last.src).path

\* Every file that was below the source is a file with the same bytes at
\* the same relative path below the destination, and every directory that
\* was below the source is a directory there.
Cloned ==
    \A q \in Below(fs0, SrcDir) :
        LET t == Last.dst \o Rel(SrcDir, q)
        IN  IF fs0[q].kind = "file"
            THEN bytes(fs, t) = Holds(fs0[q].data)
            ELSE isDirectory(fs, t)

SourceUnchanged == Subtree(fs, SrcDir) = Subtree(fs0, SrcDir)

CopiedDirectory == ReturnedOk("copyAll") /\ isDirectory(fs0, Last.src)

DeletedNonEmpty ==
    /\ Returned("delete")
    /\ isDirectory(fs0, Last.src)
    /\ Children(fs0, Find(fs0, Last.src).path) # {}

\* C5: delete(p) on a directory with at least one entry fails with
\* NotEmptyError, starts no removal, and the directory and all its entries
\* are still there.
DeleteKeepsNonEmpty ==
    DeletedNonEmpty
        => Last.res = "NotEmptyError" /\ fs = fs0 /\ pending = <<>>

\* delete was refused on a nested directory that holds an entry.
DeleteKeepsNonEmptyWitness ==
    /\ DeletedNonEmpty
    /\ Len(Last.src) >= 2
    /\ Last.res = "NotEmptyError"
    /\ Children(fs, Last.src) # {}

\* C6: when delete(p) has returned successfully for an entry p, the entry
\* is gone (isFile(p) and isDirectory(p) are false) and no removal is still
\* in flight.
DeleteRemoves ==
    ReturnedOk("delete") /\ Last.src \in DOMAIN fs0
        => /\ ~isFile(fs, Last.src)
           /\ ~isDirectory(fs, Last.src)
           /\ pending = <<>>

\* C7: when deleteAll(p) has returned successfully for an entry p, p and
\* everything below it are gone, with the native remove() and with the
\* removeEntry fallback, and every entry outside the subtree is unchanged.
DeleteAllRemoves ==
    ReturnedOk("deleteAll") /\ Last.src \in DOMAIN fs0
        => /\ \A q \in DOMAIN fs0 :
                IsPrefix(Last.src, q) => ~isFile(fs, q) /\ ~isDirectory(fs, q)
           /\ \A q \in DOMAIN fs0 :
                ~IsPrefix(Last.src, q) => q \in DOMAIN fs /\ fs[q] = fs0[q]
           /\ DOMAIN fs \subseteq DOMAIN fs0

\* ------------------------------------------------------------------------
\* move and moveAll
\* ------------------------------------------------------------------------
\* The entries below p, by their position relative to p.
Under(s, p) == [r \in {Rel(p, q) : q \in Below(s, p)} |-> s[p \o r]]

\* C4: when moveAll(srcDir, dstDir) has returned successfully (here: to a
\* destination that did not exist), isDirectory(srcDir) is false and the
\* subtree at dstDir has the structure and the contents srcDir had, with
\* and without a native move() on directory handles.
MoveAllRelocates ==
    ReturnedOk("moveAll") /\ isDirectory(fs0, Last.src) /\ ~Find(fs0, Last.dst).ok
        => /\ ~isDirectory(fs, Last.src)
           /\ isDirectory(fs, Last.dst)
           /\ Under(fs, Find(fs, Last.dst).path) = Under(fs0, SrcDir)

\* C8: when move(source, destination) has returned successfully for a file
\* source (and another destination), destination is a file holding what
\* source held and source no longer exists.
MoveRelocates ==
    ReturnedOk("move") /\ isFile(fs0, Last.src) /\ Last.src # Last.dst
        => /\ bytes(fs, Last.dst) = bytes(fs0, Last.src)
           /\ ~isFile(fs, Last.src)
           /\ ~isDirectory(fs, Last.src)

\* C9: when the host rejects the file move with NotAllowedError, the state
\* in which move returns is the state a successful native move returns in.
\* move fell back on a host that would otherwise have moved the file.
FellBack ==
    /\ Returned("move")
    /\ Last.env.moveFault = "NotAllowedError"
    /\ Last.env.sinkFault = "none"
    /\ Last.src # Last.dst
    /\ move(fs0, Last.src, Last.dst, NoEnv).res = "ok"

MoveFallbackAsNative ==
    FellBack
        => /\ Last.res = "ok"
           /\ fs = move(fs0, Last.src, Last.dst, NoEnv).fs
           /\ pending = <<>>

\* move got as far as the host's move(), which rejected with a fault other
\* than NotAllowedError.
OtherFault ==
    /\ Returned("move")
    /\ Last.env.moveFault \notin {"none", "NotAllowedError"}
    /\ isFile(fs0, Last.src)
    /\ LET dp == getDetails(fs0, Parent(Last.dst), FALSE, TRUE, "directory")
       IN  dp.err = "" /\ dp.h.ok

\* C10: a fault of the host's move() other than NotAllowedError is the
\* fault move fails with; nothing was copied and nothing deleted: every
\* entry is as it was, no removal is in flight, and the only new entries
\* are the directories leading to destination.
MoveFaultSurfaces ==
    OtherFault
        => /\ Last.res = Last.env.moveFault
           /\ pending = <<>>
           /\ \A q \in DOMAIN fs0 : q \in DOMAIN fs /\ fs[q] = fs0[q]
           /\ \A q \in (DOMAIN fs) \ (DOMAIN fs0) :
                fs[q].kind = "directory" /\ IsProperPrefix(q, Last.dst)

\* The host's move() aborted on the way to a destination whose parent
\* directory had to be created.
MoveFaultSurfacesWitness ==
    /\ OtherFault
    /\ Last.env.moveFault = "AbortError"
    /\ Last.res = "AbortError"
    /\ Len(Last.dst) >= 2
    /\ ~Find(fs0, Parent(Last.dst)).ok
    /\ isDirectory(fs, Parent(Last.dst))
    /\ bytes(fs, Last.src) = bytes(fs0, Last.src)

\* ------------------------------------------------------------------------
\* Missing and wrong-kind targets
\* ------------------------------------------------------------------------
NeedsSource == {"delete", "deleteAll", "copy", "copyAll", "move", "moveAll"}

\* One of the six operations was called on a target (a source) that does
\* not resolve.
CalledOnMissing ==
    /\ hist # <<>>
    /\ Last.op \in NeedsSource
    /\ ~Find(fs0, Last.src).ok

\* C11: delete, deleteAll, copy, copyAll, move and moveAll fail with
\* NotFoundError when their target (their source) does not exist, whether
\* its last segment or an inner segment is missing or an inner segment is a
\* file; nothing is changed.
MissingIsNotFound ==
    CalledOnMissing
        => Last.res = "NotFoundError" /\ fs = fs0 /\ pending = <<>>

\* Some proper prefix of p is a file.
ThroughFile(s, p) ==
    \E n \in 1..(Len(p) - 1) : IsFileAt(s, SubSeq(p, 1, n))

\* deleteAll was refused on a path that leads through a file.
MissingIsNotFoundWitness ==
    /\ CalledOnMissing
    /\ Last.op = "deleteAll"
    /\ ThroughFile(fs0, Last.src)
    /\ Last.res = "NotFoundError"

\* A call on a target of the wrong kind: append on a directory, copy or
\* move of a directory, copy of a file onto a directory.
WrongKind ==
    /\ hist # <<>>
    /\ \/ Last.op = "append" /\ isDirectory(fs0, Last.src)
       \/ Last.op \in {"copy", "move"} /\ isDirectory(fs0, Last.src)
       \/ Last.op = "copy" /\ isFile(fs0, Last.src) /\ isDirectory(fs0, Last.dst)

\* C12: each of these calls fails with DirectoryError, and changes
\* nothing.
WrongKindIsDirectoryError ==
    WrongKind => Last.res = "DirectoryError" /\ fs = fs0 /\ pending = <<>>

\* copy of a file was refused on a destination that is a directory with an
\* entry in it.
WrongKindIsDirectoryErrorWitness ==
    /\ WrongKind
    /\ Last.op = "copy"
    /\ isFile(fs0, Last.src)
    /\ Last.dst \in DOMAIN fs0
    /\ Children(fs0, Last.dst) # {}
    /\ Last.res = "DirectoryError"

\* C13: write(p, b) on a path that is a directory fails with
\* DirectoryError and leaves the directory and what it holds unchanged.
WriteOnDirectory ==
    Returned("write") /\ isDirectory(fs0, Last.src)
        => Last.res = "DirectoryError" /\ fs = fs0

\* ------------------------------------------------------------------------
\* createDirectory
\* ------------------------------------------------------------------------
\* C15: after a successful createDirectory(p), isDirectory is true of p and
\* of every proper prefix of p.
CreatesAncestors ==
    ReturnedOk("createDirectory")
        => \A n \in 1..Len(Last.src) : isDirectory(fs, SubSeq(Last.src, 1, n))

\* createDirectory of a three-segment path none of whose segments existed.
CreatesAncestorsWitness ==
    /\ ReturnedOk("createDirectory")
    /\ Len(Last.src) = 3
    /\ ~Find(fs0, SubSeq(Last.src, 1, 1)).ok
    /\ isDirectory(fs, SubSeq(Last.src, 1, 2))
    /\ isDirectory(fs, Last.src)

\* createDirectory was called on a path that was a directory already.
CreatedAgain ==
    /\ Returned("createDirectory")
    /\ Last.src \in DOMAIN fs0
    /\ fs0[Last.src].kind = "directory"

\* C16: createDirectory(p) on a store where p is a directory already
\* raises no error and leaves the store exactly as it was.
CreateDirectoryIdempotent ==
    CreatedAgain => Last.res = "ok" /\ fs = fs0 /\ pending = <<>>

\* createDirectory was called again on a nested directory that holds an
\* entry.
CreateDirectoryIdempotentWitness ==
    /\ CreatedAgain
    /\ Len(Last.src) >= 2
    /\ Children(fs0, Last.src) # {}
    /\ Last.res = "ok"
    /\ fs = fs0

\* ------------------------------------------------------------------------
\* Reading what is not there
\* ------------------------------------------------------------------------
\* A reading operation was called on a path that is no entry of the store
\* (and is not the name of the root).
ReadMissing ==
    /\ hist # <<>>
    /\ Last.op \in {"bytes", "size", "lastModified", "isFile", "isDirectory"}
    /\ Last.src \notin DOMAIN fs0
    /\ Last.src # RootId

\* C14: for a path that is not in the store, bytes, size and lastModified
\* return undefined and isFile and isDirectory return false, also when an
\* inner segment is missing or is a file; none of them throws.
MissingReadsUndefined ==
    ReadMissing
        => /\ Last.op \in {"bytes", "size", "lastModified"}
                => Last.res = "undefined"
           /\ Last.op \in {"isFile", "isDirectory"} => Last.res = "false"
           /\ fs = fs0

\* size answered undefined for a path that leads through a file.
MissingReadsUndefinedWitness ==
    /\ ReadMissing
    /\ Last.op = "size"
    /\ ThroughFile(fs0, Last.src)
    /\ Last.res = "undefined"

\* ------------------------------------------------------------------------
\* Write sinks
\* ------------------------------------------------------------------------
\* C17: every sink that write or copy opened with createWritable() is
\* closed when the call returns, with a result or with a fault, also when
\* the sink's write() step faulted.
SinksClosed ==
    hist # <<>> /\ Last.op \in {"write", "copy"} => open = {}

\* ------------------------------------------------------------------------
\* copyAll and moveAll: the first failure
\* ------------------------------------------------------------------------
\* copyAll or moveAll walked a directory entry by entry, to a destination
\* apart from it.
Walked ==
    /\ hist # <<>>
    /\ Last.op \in {"copyAll", "moveAll"}
    /\ Last.src # RootId
    /\ IsDirAt(fs0, Last.src)
    /\ ~Last.env.dirMove
    /\ ~IsPrefix(Last.src, Last.dst)
    /\ ~IsPrefix(Last.dst, Last.src)
    /\ createDirectory(fs0, Last.dst).res = "ok"

\* The store when the walk starts, and the entries in the order of the walk.
WalkStart == createDirectory(fs0, Last.dst).fs

WalkEntries == list(WalkStart, Last.src, Last.env.rev)

\* What the call made for the first entry does.
FirstChild ==
    LET entry == Head(WalkEntries)
        sourcePath == Append(Last.src, entry.name)
        destinationPath == Append(Last.dst, entry.name)
    IN  IF Last.op = "copyAll"
        THEN IF entry.isDirectory
             THEN copyAll(WalkStart, sourcePath, destinationPath, Last.env)
             ELSE copy(WalkStart, sourcePath, destinationPath, Last.env.sinkFault)
        ELSE IF entry.isDirectory
             THEN moveAll(WalkStart, sourcePath, destinationPath, Last.env)
             ELSE move(WalkStart, sourcePath, destinationPath, Last.env)

FirstChildFails ==
    Walked /\ WalkEntries # <<>> /\ FirstChild.res # "ok"

\* C18: when the call for a child fails (here: for the first child of the
\* walk), copyAll and moveAll fail with that error; no later sibling, and
\* nothing below one, is copied or moved; and the source directories on the
\* path to the failed child are not deleted, not even by a removal still
\* in flight.
AbortsAtFirstFailure ==
    FirstChildFails
        => /\ Last.res = FirstChild.res
           /\ \A i \in 2..Len(WalkEntries) :
                 LET k == WalkEntries[i].name
                 IN  /\ Subtree(fs, Append(Last.src, k))
                            = Subtree(fs0, Append(Last.src, k))
                     /\ Subtree(SettleAll(fs, pending), Append(Last.src, k))
                            = Subtree(fs0, Append(Last.src, k))
                     /\ Subtree(fs, Append(Last.dst, k))
                            = Subtree(fs0, Append(Last.dst, k))
           /\ IsDirAt(SettleAll(fs, pending), Last.src)
           /\ Head(WalkEntries).isDirectory
                 => IsDirAt(SettleAll(fs, pending),
                            Append(Last.src, Head(WalkEntries).name))

\* copyAll failed on the first of two entries.
AbortsAtFirstFailureWitness ==
    /\ FirstChildFails
    /\ Last.op = "copyAll"
    /\ Len(WalkEntries) = 2
    /\ Last.res # "ok"

\* moveAll failed on the first of two entries.
MoveAllAbortsWitness ==
    /\ FirstChildFails
    /\ Last.op = "moveAll"
    /\ Len(WalkEntries) = 2

\* moveAll failed below a directory that was its first entry.
MoveAllAbortsBelowWitness ==
    /\ FirstChildFails
    /\ Last.op = "moveAll"
    /\ Head(WalkEntries).isDirectory
\* ------------------------------------------------------------------------
\* copyAll and moveAll: one child after the other
\* ------------------------------------------------------------------------
\* C19: the children are processed one after the other, and every store
\* operation for a child's subtree, the removal of an emptied source
\* subdirectory included, has completed before the next sibling is taken up
\* and before the parent is checked for emptiness and deleted: when moveAll
\* returns from its walk, the only removal that can still be in flight is
\* the one of the source directory itself.
ChildRemovalsDone ==
    Walked /\ Last.op = "moveAll"
        => \A i \in 1..Len(pending) :
              Append(pending[i].dir, pending[i].name) = Last.src
\* ------------------------------------------------------------------------
\* Faults of removeEntry
\* ------------------------------------------------------------------------
\* C20: no fault of the store is swallowed: when the removeEntry() that
\* delete or deleteAll (on its fallback) started is rejected, the call has
\* not reported success.
RemovalFaultSurfaces ==
    /\ Len(hist) = 2
    /\ hist[1].op \in {"delete", "deleteAll"}
    /\ hist[2].op = "settle"
    /\ hist[2].res # "ok"
    => hist[1].res # "ok"

\* ------------------------------------------------------------------------
\* The path resolver
\* ------------------------------------------------------------------------
\* The segments the last call of getDetails walked.
LastSteps == StepsOf(Last.src, Last.env.returnParent)

\* getDetails was called, on a host without faults, with a path of which a
\* non-final segment is missing (and create is false) or is a file, or of
\* which the final segment cannot be resolved as the kind asked for.
Unresolvable ==
    /\ Returned("getDetails")
    /\ Last.env.fault = "none"
    /\ Last.src # RootId
    /\ LastSteps # <<>>
    /\ \/ \E n \in 1..(Len(LastSteps) - 1) :
             \/ ~Last.env.create /\ SubSeq(LastSteps, 1, n) \notin DOMAIN fs0
             \/ IsFileAt(fs0, SubSeq(LastSteps, 1, n))
       \/ /\ IsDirAt(fs0, Parent(LastSteps))
          /\ \/ ~Last.env.create /\ LastSteps \notin DOMAIN fs0
             \/ Last.env.kind = "file" /\ IsDirAt(fs0, LastSteps)
             \/ Last.env.kind = "directory" /\ IsFileAt(fs0, LastSteps)

\* C21: for every path and every combination of returnParent, create and
\* kind, when a non-final segment is missing (create false) or is a file,
\* or the final segment cannot be resolved as the requested kind, the
\* resolver returns undefined and throws nothing.
ResolverReturnsUndefined == Unresolvable => Last.res = "undefined"

\* The resolver returned undefined, with create set, because an inner
\* segment is a file.
ResolverReturnsUndefinedWitness ==
    /\ Unresolvable
    /\ Last.env.create
    /\ \E n \in 1..(Len(LastSteps) - 1) : IsFileAt(fs0, SubSeq(LastSteps, 1, n))
    /\ Last.res = "undefined"

\* getDetails called a handle primitive of a host that rejects with a fault
\* that is neither not-found nor wrong-kind.
HostFaulted ==
    /\ Returned("getDetails")
    /\ Last.env.fault # "none"
    /\ Last.src # RootId
    /\ LastSteps # <<>>

\* C22: a fault of a host handle primitive that is not a not-found or
\* wrong-kind condition leaves the resolver unmodified; it is not turned
\* into undefined.
HostFaultPropagates == HostFaulted => Last.res = Last.env.fault
\* ------------------------------------------------------------------------
\* Concurrent appends
\* ------------------------------------------------------------------------
\* Callers i and j appended to the same file, which existed before, both
\* read it before either wrote, and both have returned successfully.
BothReadOld(i, j) ==
    /\ i # j
    /\ calls[i].pc = "done" /\ calls[i].res = "ok"
    /\ calls[j].pc = "done" /\ calls[j].res = "ok"
    /\ calls[i].path = calls[j].path
    /\ isFile(fs0, calls[i].path)
    /\ calls[i].newValue = bytes(fs0, calls[i].path).data \o calls[i].contents
    /\ calls[j].newValue = bytes(fs0, calls[j].path).data \o calls[j].contents

\* C23: append is a read-modify-write that is not atomic: when two appends
\* to the same existing file both read the old content before either
\* writes, both succeed and the file holds the old content followed by only
\* one of the two appended contents.
AppendLosesUpdate ==
    \A i, j \in Callers :
        BothReadOld(i, j) /\ (\A k \in Callers \ {i, j} : calls[k].pc = "idle")
            => LET old == bytes(fs0, calls[i].path).data
               IN  /\ bytes(fs, calls[i].path).data
                         \in {old \o calls[i].contents, old \o calls[j].contents}
                   /\ Len(bytes(fs, calls[i].path).data)
                         < Len(old) + Len(calls[i].contents) + Len(calls[j].contents)

\* Two appends of different contents both read the old content and both
\* returned successfully.
AppendLosesUpdateWitness ==
    \E i, j \in Callers :
        /\ BothReadOld(i, j)
        /\ calls[i].contents # calls[j].contents
        /\ \A k \in Callers \ {i, j} : calls[k].pc = "idle"
\* ------------------------------------------------------------------------
\* lastModified of a directory
\* ------------------------------------------------------------------------
\* The stored timestamps of the files below the directory lastModified was
\* called on.
FileTimes ==
    {Last.env.times[q] : q \in {x \in Below(fs0, SrcDir) : fs0[x].kind = "file"}}

\* lastModified was called with the path of a directory that has a file
\* below it.
OnDirectoryWithFiles ==
    /\ Returned("lastModified")
    /\ Last.src # RootId
    /\ IsDirAt(fs0, Last.src)
    /\ FileTimes # {}

\* C24: for a directory with at least one file below it, lastModified is
\* the latest stored timestamp of the files below it, at any depth and
\* whatever the clock says, also when the directory holds empty
\* subdirectories.
LastModifiedIsLatest ==
    OnDirectoryWithFiles
        => /\ Last.res = "value"
           /\ \E m \in FileTimes :
                 /\ Last.data = <<m>>
                 /\ \A x \in FileTimes : x <= m
\* ------------------------------------------------------------------------
\* list
\* ------------------------------------------------------------------------
\* The record list yields for the entry at q.
RecordOf(s, q) ==
    [name |-> NameOf(q),
     isDirectory |-> s[q].kind = "directory",
     isFile |-> s[q].kind = "file",
     isSymlink |-> FALSE]

\* The store in which write(p, b) on an empty store ends.
Written(p, b) == write(EmptyStore, p, b, "none").fs

\* C25: list(p) yields nothing when p is absent; for a directory it yields
\* exactly one record per immediate child and no other, each with the
\* child's name, isFile or isDirectory by its kind, and isSymlink false;
\* and after write("docs/readme.txt", 2 bytes) on an empty store,
\* list("docs") yields the one file record and size of the file is 2.
ListYieldsChildren ==
    Returned("list")
        => /\ ~Find(fs0, Last.src).ok => Last.res = "value" /\ Last.data = <<>>
           /\ isDirectory(fs0, Last.src)
                 => /\ Last.res = "value"
                    /\ Len(Last.data) = Cardinality(Children(fs0, SrcDir))
                    /\ \A q \in Children(fs0, SrcDir) :
                          \E i \in 1..Len(Last.data) :
                              Last.data[i] = RecordOf(fs0, q)
                    /\ \A i \in 1..Len(Last.data) :
                          Last.data[i].isFile # Last.data[i].isDirectory
           /\ \A p \in PathsOfLen(2) : \A b \in Data :
                 Len(b) = 2 /\ fs0 = Written(p, b) /\ Last.src = Parent(p)
                     => /\ Last.data = <<[name |-> NameOf(p), isDirectory |-> FALSE,
                                         isFile |-> TRUE, isSymlink |-> FALSE]>>
                        /\ size(fs0, p) = Holds(<<2>>)

\* list was called on a directory whose first child is a directory with an
\* entry of its own, next to a second child.
ListYieldsChildrenWitness ==
    /\ Returned("list")
    /\ isDirectory(fs0, Last.src)
    /\ Len(Last.data) = 2
    /\ Last.data[1].isDirectory
    /\ Below(fs0, SrcDir) # Children(fs0, SrcDir)

\* list was called on the directory that write("a/b", 2 bytes) made on an
\* empty store.
ListAfterWriteWitness ==
    /\ Returned("list")
    /\ \E p \in PathsOfLen(2) : \E b \in Data :
          Len(b) = 2 /\ fs0 = Written(p, b) /\ Last.src = Parent(p)
    /\ Len(Last.data) = 1
\* ------------------------------------------------------------------------
\* copyAll and moveAll: source and destination in step
\* ------------------------------------------------------------------------
\* A walk to a destination that is not the literal "root", which getDetails
\* takes for the workspace when a child's parent is looked up.
WalkedApart == Walked /\ Last.dst # RootId

\* q is where the walk puts the counterpart of the source entry x.
Mirrors(q, x) == q = Last.dst \o Rel(Last.src, x)

\* C26: in a walk of copyAll or moveAll every child operation works on the
\* pair (source/n, destination/n) with the same n, at every depth: every
\* entry the walk creates or changes outside the source is the destination
\* or leads to it, or sits below the destination at the relative path of a
\* source entry of its kind; and when the walk succeeds every source entry
\* has its counterpart there.
WalkInStep ==
    WalkedApart
        => /\ \A q \in DOMAIN fs :
                 (q \notin DOMAIN fs0 \/ fs[q] # fs0[q]) /\ ~IsPrefix(Last.src, q)
                     => \/ IsPrefix(q, Last.dst)
                        \/ \E x \in Below(fs0, Last.src) :
                              Mirrors(q, x) /\ fs[q].kind = fs0[x].kind
           /\ Last.res = "ok"
                 => \A x \in Below(fs0, Last.src) :
                       \E q \in DOMAIN fs : Mirrors(q, x) /\ fs[q] = fs0[x]

\* A walk over two siblings, or over a child and a grandchild, succeeded.
WalkInStepWitness ==
    /\ WalkedApart
    /\ Last.res = "ok"
    /\ Last.op = "copyAll"
    /\ Cardinality(Children(fs0, Last.src)) = 2

\* moveAll walked down to a grandchild.
WalkInStepDeepWitness ==
    /\ WalkedApart
    /\ Last.op = "moveAll"
    /\ \E x \in Below(fs0, Last.src) : Len(x) = Len(Last.src) + 2
    /\ \E q \in DOMAIN fs : \E x \in Below(fs0, Last.src) :
          Len(x) = Len(Last.src) + 2 /\ Mirrors(q, x)
\* ------------------------------------------------------------------------
\* moveAll: the order of creating, moving and deleting
\* ------------------------------------------------------------------------
\* moveAll was called, without a native move of directories, on the path of
\* a directory and with a destination apart from it.
MoveWalk ==
    /\ Returned("moveAll")
    /\ Last.src # RootId
    /\ IsDirAt(fs0, Last.src)
    /\ ~Last.env.dirMove
    /\ Last.dst # RootId
    /\ ~IsPrefix(Last.src, Last.dst)
    /\ ~IsPrefix(Last.dst, Last.src)

\* The directories of the source, the source itself included.
SourceDirs ==
    {d \in DOMAIN fs0 : IsPrefix(Last.src, d) /\ fs0[d].kind = "directory"}

\* A removal of d was started, or has taken effect already.
RemovalTried(d) ==
    \/ d \notin DOMAIN fs
    \/ \E i \in 1..Len(pending) : Append(pending[i].dir, pending[i].name) = d

\* C27: in the walk of moveAll the destination directory is created before
\* any child is moved (when it cannot be created nothing is moved), the
\* deletion of a source directory is tried only after each of its children
\* has been relocated, and no source directory that still has a child is
\* removed, not even by a removal in flight.
MoveAllDeletesLast ==
    MoveWalk
        => /\ createDirectory(fs0, Last.dst).res # "ok"
                 => /\ Last.res = createDirectory(fs0, Last.dst).res
                    /\ Subtree(fs, Last.src) = Subtree(fs0, Last.src)
                    /\ pending = <<>>
           /\ \A d \in SourceDirs :
                 RemovalTried(d)
                     => \A x \in Below(fs0, d) :
                           \E q \in DOMAIN fs : Mirrors(q, x) /\ fs[q] = fs0[x]
           /\ \A d \in SourceDirs :
                 Children(SettleAll(fs, pending), d) # {}
                     => d \in DOMAIN SettleAll(fs, pending)

\* moveAll gave up with a child still in the source after it had moved
\* another and started to remove it.
MoveAllDeletesLastWitness ==
    /\ MoveWalk
    /\ Last.res # "ok"
    /\ pending # <<>>
    /\ Children(SettleAll(fs, pending), Last.src) # {}

\* moveAll started the removal of the source after moving two children.
MoveAllDeletedWitness ==
    /\ MoveWalk
    /\ Last.res = "ok"
    /\ RemovalTried(Last.src)
    /\ Cardinality(Children(fs0, Last.src)) = 2

\* moveAll could not create its destination.
MoveAllNoDestinationWitness ==
    /\ MoveWalk
    /\ createDirectory(fs0, Last.dst).res # "ok"
    /\ Below(fs0, Last.src) # {}
\* ------------------------------------------------------------------------
\* Reading changes nothing
\* ------------------------------------------------------------------------
ReadOps == {"bytes", "size", "lastModified", "isFile", "isDirectory", "list"}

\* C28: bytes, size, lastModified, isFile, isDirectory and list leave the
\* store exactly as it was, for every path, present or absent; they create
\* no missing intermediate directory.
ReadsChangeNothing ==
    hist # <<>> /\ Last.op \in ReadOps
        => fs = fs0 /\ pending = <<>> /\ open = {}

\* A reading operation was called on a path whose parent is missing.
ReadsChangeNothingWitness ==
    /\ hist # <<>>
    /\ Last.op = "list"
    /\ Len(Last.src) >= 2
    /\ Parent(Last.src) \notin DOMAIN fs0
    /\ Parent(Last.src) \notin DOMAIN fs
\* ------------------------------------------------------------------------
\* What write and the failing calls leave alone
\* ------------------------------------------------------------------------
\* C29: write(p, b) creates or changes no entry but the file at p and the
\* missing ancestor directories of p, and removes none; when an ancestor of
\* p is a file it does not create or overwrite the top-level file named
\* after the last segment of p.
WriteTouchesOnlyPath ==
    Returned("write")
        => /\ \A q \in DOMAIN fs :
                 (q \notin DOMAIN fs0 \/ fs[q] # fs0[q]) => IsPrefix(q, Last.src)
           /\ DOMAIN fs0 \subseteq DOMAIN fs
\* One of the seven operations failed with an error of the checks on its
\* own arguments: not a walk of copyAll or moveAll, whose errors come from
\* the children and from the delete that follows them.
FailedOnArguments ==
    /\ hist # <<>>
    /\ Last.op \in {"append", "delete", "deleteAll", "copy", "move",
                    "copyAll", "moveAll"}
    /\ Last.res \in {"NotFoundError", "DirectoryError", "NotEmptyError"}
    /\ ~(Last.op \in {"copyAll", "moveAll"} /\ isDirectory(fs0, Last.src))

\* C30: when append, delete, deleteAll, copy, move, copyAll or moveAll
\* fails with NotFoundError, DirectoryError or NotEmptyError of the checks
\* on its own arguments, the store is exactly as before the call: nothing
\* was created, removed or changed, the parent directories of the
\* destination included, and no removal was started.
FailedCallChangesNothing ==
    FailedOnArguments => fs = fs0 /\ pending = <<>> /\ open = {}

\* move refused a directory, with a destination whose parent is missing.
FailedCallChangesNothingWitness ==
    /\ FailedOnArguments
    /\ Last.op = "move"
    /\ Last.res = "DirectoryError"
    /\ Len(Last.dst) >= 2
    /\ Parent(Last.dst) \notin DOMAIN fs0
\* ------------------------------------------------------------------------
\* copyAll and moveAll: how deep the walk goes
\* ------------------------------------------------------------------------
\* The number of directory levels of the tree at d, d included.
TreeDepth(s, d) ==
    LET levels == {Len(q) - Len(d) :
                      q \in {x \in Below(s, d) : s[x].kind = "directory"}}
    IN  1 + (IF levels = {} THEN 0
             ELSE CHOOSE m \in levels : \A n \in levels : n <= m)

\* copyAll or moveAll was called on a directory and walked it.
WalkedDown ==
    /\ hist # <<>>
    /\ Last.op \in {"copyAll", "moveAll"}
    /\ isDirectory(fs0, Last.src)
    /\ ~Last.env.dirMove

\* C31: a call of copyAll or moveAll on a finite tree comes to an end, and
\* its calls are never nested deeper than the source tree was when the call
\* started, also when the destination lies inside the source, as in
\* copyAll("a", "a/b"): the walk does not go down into what it has just
\* created.
WalkDepthBounded ==
    WalkedDown => Last.depth <= TreeDepth(fs0, SrcDir)

\* The same for the calls whose destination is not inside the source.
WalkApartDepthBounded ==
    WalkedDown /\ ~IsPrefix(SrcDir, Last.dst) /\ Last.dst # RootId
        => Last.depth <= TreeDepth(fs0, SrcDir)

====
